---- MODULE Spec2Model ----
(***************************************************************************)
(* Khmer News Summarizer (src/app.py): one Streamlit session.               *)
(*                                                                         *)
(* The session state holds the stored summary and the stored input text.   *)
(* A button click starts one run of the script, which handles that button  *)
(* (fetch, summarize or ask) to its end; what the run read and emitted     *)
(* stays on the page until the next interaction begins (Idle).  The widget *)
(* values the user supplies and the answers of the three remote services   *)
(* are the inputs of a run.  Text is a sequence of one-character strings,  *)
(* so that trimming, joining and length tests are computed as the code     *)
(* does.                                                                   *)
(***************************************************************************)
EXTENDS Integers, Sequences, FiniteSets, TLC

VARIABLES
    summary,      \* st.session_state.summary
    input_text,   \* st.session_state.input_text
    act,          \* the button the last run handled, "idle" between runs
    inp,          \* the widget values read by this run
    fres,         \* what requests.get produced in this run
    sres,         \* what requests.post produced in this run
    pres,         \* what model.generate_content produced in this run
    net,          \* the network calls this run issued, in order
    msgs,         \* the notices this run emitted, in order
    written,      \* the text handed to st.write by this run
    coded,        \* the response body handed to st.code by this run
    escaped       \* an exception left the script in this run

vars == <<summary, input_text, act, inp, fres, sres, pres, net, msgs,
          written, coded, escaped>>

----------------------------------------------------------------------------
(* Bounds of the model *)

MaxLen == 3       \* longest summary field / provider text that is enumerated
MaxParas == 2     \* most paragraph elements on an enumerated page

(* Program constant: "if len(p) > 40" *)
MinParagraphLen == 40

----------------------------------------------------------------------------
(* Text *)

\* whitespace, and the characters of the enumerated texts
WS == {" ", "\n"}
Alphabet == {" ", "\n", "x"}

Rep(c, n) == [i \in 1..n |-> c]

Strings == UNION {[1..n -> Alphabet] : n \in 0..MaxLen}

\* the first index at or after i, and the last at or before i, of a
\* character that is no whitespace (Len(s) + 1 and 0 if there is none)
RECURSIVE FirstNonBlank(_, _)
FirstNonBlank(s, i) ==
    IF i > Len(s) THEN i
    ELSE IF s[i] \notin WS THEN i ELSE FirstNonBlank(s, i + 1)

RECURSIVE LastNonBlank(_, _)
LastNonBlank(s, i) ==
    IF i < 1 THEN i
    ELSE IF s[i] \notin WS THEN i ELSE LastNonBlank(s, i - 1)

\* str.lstrip(), str.rstrip(), str.strip(): whitespace at the ends is removed
lstrip(s) == SubSeq(s, FirstNonBlank(s, 1), Len(s))

rstrip(s) == SubSeq(s, 1, LastNonBlank(s, Len(s)))

strip(s) == rstrip(lstrip(s))

IsBlank_never(s) == FALSE

\* "not x.strip()"
IsBlank(s) == strip(s) = <<>>

RECURSIVE Concat(_)
Concat(ss) == IF ss = <<>> THEN <<>> ELSE Head(ss) \o Concat(Tail(ss))

\* "\n".join(...)
RECURSIVE JoinNL(_)
JoinNL(ss) ==
    IF ss = <<>> THEN <<>>
    ELSE IF Len(ss) = 1 THEN ss[1]
    ELSE ss[1] \o <<"\n">> \o JoinNL(Tail(ss))

----------------------------------------------------------------------------
(* Notices *)

\* st.warning, st.error, st.info, st.success, st.code, st.subheader, st.write
Msg(k, i) == [kind |-> k, id |-> i]

----------------------------------------------------------------------------
(* Pages: a page is the sequence of its paragraph elements, a paragraph    *)
(* element the sequence of the text nodes below it.                        *)

Letters == <<"a", "b", "c", "d">>

\* a text node: lead blanks, n letters, trail blanks
Node(c, lead, n, trail) == Rep(" ", lead) \o Rep(c, n) \o Rep(" ", trail)

ParaShapes(c) ==
    { << Node(c, 0, 10, 0) >>,
      << Node(c, 0, 40, 0) >>,
      << Node(c, 1, 41, 1) >>,
      << Node(c, 0, 55, 0) >>,
      << Node(c, 0, 20, 1), Node(c, 0, 20, 0) >>,
      << Node(c, 0, 20, 1), Node(c, 0, 21, 0) >> }

PagesOfLen(n) ==
    { pg \in [1..n -> UNION {ParaShapes(Letters[i]) : i \in 1..n}] :
        \A i \in 1..n : pg[i] \in ParaShapes(Letters[i]) }

Pages == UNION {PagesOfLen(n) : n \in 0..MaxParas}

----------------------------------------------------------------------------
(* Remote answers *)

Statuses == {200, 300, 404, 500}

NoPage == <<>>

NoFetch == [kind |-> "none", exc |-> "none", status |-> 0, page |-> NoPage]

FetchResults ==
    {[kind |-> "exc", exc |-> e, status |-> 0, page |-> NoPage] :
        e \in {"ConnectionError", "Timeout"}}
    \cup
    {[kind |-> "http", exc |-> "none", status |-> st, page |-> pg] :
        st \in Statuses, pg \in Pages}

\* the JSON value under the key "summary" of a response body
Field(t, v) == [type |-> t, val |-> v]

Fields ==
    {Field("missing", <<>>), Field("null", <<>>), Field("number", <<>>)}
    \cup {Field("string", s) : s \in Strings}

Body(j, f) == [json |-> j, field |-> f]

NoBody == Body("none", Field("missing", <<>>))

Bodies ==
    {Body("invalid", Field("missing", <<>>)), Body("array", Field("missing", <<>>))}
    \cup {Body("object", f) : f \in Fields}

\* resp.json() on a body that is no JSON raises the JSONDecodeError of
\* requests (a RequestException) or a plain ValueError, by library version
JsonErrors == {"RequestsJSONDecodeError", "ValueError"}

NoPost == [kind |-> "none", exc |-> "none", status |-> 0, body |-> NoBody,
           jsonexc |-> "none"]

PostResults ==
    {[kind |-> "exc", exc |-> e, status |-> 0, body |-> NoBody, jsonexc |-> "none"] :
        e \in {"ConnectionError", "Timeout"}}
    \cup
    {[kind |-> "http", exc |-> "none", status |-> st, body |-> b,
      jsonexc |-> IF b.json = "invalid" THEN j ELSE "none"] :
        st \in Statuses, b \in Bodies, j \in JsonErrors}

NoProvider == [kind |-> "none", text |-> <<>>]

\* generate_content raises; returns a falsy response; a response without a
\* text attribute; with text None; whose text accessor raises; with a text
ProviderResults ==
    {[kind |-> k, text |-> <<>>] :
        k \in {"raise", "null", "noattr", "text_none", "text_raises"}}
    \cup {[kind |-> "text", text |-> s] : s \in Strings}

----------------------------------------------------------------------------
(* Exceptions *)

RequestExceptions ==
    {"ConnectionError", "Timeout", "HTTPError", "RequestsJSONDecodeError"}

IsInstance(exc, cls) ==
    \/ cls = "Exception"
    \/ cls = "RequestException" /\ exc \in RequestExceptions

\* the first except clause of a try statement that catches exc, 0 if none
Catch(exc, clauses) ==
    IF \E n \in 1..Len(clauses) : IsInstance(exc, clauses[n])
    THEN CHOOSE n \in 1..Len(clauses) :
            /\ IsInstance(exc, clauses[n])
            /\ \A m \in 1..(n - 1) : ~IsInstance(exc, clauses[m])
    ELSE 0

raise_for_status_never(status) == FALSE

\* Response.raise_for_status(): raises HTTPError for 4xx and 5xx
raise_for_status(status) == status >= 400 /\ status < 600

----------------------------------------------------------------------------
(* extract_main_text_from_url *)

StripNodes(p) == [i \in 1..Len(p) |-> strip(p[i])]

NonEmpty(s) == s # <<>>

\* p.get_text(strip=True): every text node stripped, empty ones dropped,
\* the rest concatenated without a separator
get_text_strip(p) == Concat(SelectSeq(StripNodes(p), NonEmpty))

LongEnough(t) == Len(t) > MinParagraphLen

\* lines 84-90: the text of a parsed page
PageText(pg) ==
    JoinNL(SelectSeq([i \in 1..Len(pg) |-> get_text_strip(pg[i])], LongEnough))

FetchClauses_none == <<>>

\* line 80: except Exception
FetchClauses == <<"Exception">>

FetchExc(fr) ==
    IF fr.kind = "exc" THEN fr.exc
    ELSE IF raise_for_status(fr.status) THEN "HTTPError" ELSE "none"

extract_main_text_from_url(fr) ==
    IF FetchExc(fr) # "none"
    THEN IF Catch(FetchExc(fr), FetchClauses) = 1
         THEN [text |-> <<>>,
               msgs |-> <<Msg("error", "fetch_error")>>,
               raised |-> FALSE]
         ELSE [text |-> <<>>, msgs |-> <<>>, raised |-> TRUE]
    ELSE [text |-> PageText(fr.page), msgs |-> <<>>, raised |-> FALSE]

----------------------------------------------------------------------------
(* The fetch handler, lines 144-160 *)

FetchHandler(url, fr, old_input) ==
    IF IsBlank(url)
    THEN [input_text |-> old_input, net |-> <<>>,
          msgs |-> <<Msg("warning", "url_missing")>>, escaped |-> FALSE]
    ELSE LET ex == extract_main_text_from_url(fr) IN
         IF ex.raised
         THEN [input_text |-> old_input, net |-> <<"GET">>,
               msgs |-> ex.msgs, escaped |-> TRUE]
         ELSE IF ex.text = <<>>
         THEN [input_text |-> old_input, net |-> <<"GET">>,
               msgs |-> ex.msgs \o <<Msg("error", "extract_failed"),
                                     Msg("info", "paste_manually")>>,
               escaped |-> FALSE]
         ELSE [input_text |-> ex.text, net |-> <<"GET">>,
               msgs |-> ex.msgs \o <<Msg("success", "extracted"),
                                     Msg("rerun", "rerun")>>,
               escaped |-> FALSE]

----------------------------------------------------------------------------
(* The summarize handler, lines 186-223 *)

DataGet_nodefault(b) ==
    IF b.field.type = "missing" THEN Field("null", <<>>) ELSE b.field

\* data.get("summary", "")
DataGet(b) ==
    IF b.field.type = "missing" THEN Field("string", <<>>) ELSE b.field

IsEmptySummary_never(s) == FALSE

\* line 208: not summary
IsEmptySummary(s) == s = <<>>

StoreSummary_append(old, new) == old \o new

\* line 211: st.session_state.summary = summary
StoreSummary(old, new) == new

\* lines 203-213, the body of the try statement: the exception it raises
\* ("none" if it ends normally) and the summary it computed
PostTry(sr) ==
    IF sr.kind = "exc"
    THEN [exc |-> sr.exc, response |-> FALSE, summary |-> <<>>]
    ELSE IF raise_for_status(sr.status)
    THEN [exc |-> "HTTPError", response |-> TRUE, summary |-> <<>>]
    ELSE IF sr.body.json = "invalid"
    THEN [exc |-> sr.jsonexc, response |-> FALSE, summary |-> <<>>]
    ELSE IF sr.body.json # "object"
    THEN [exc |-> "AttributeError", response |-> FALSE, summary |-> <<>>]
    ELSE IF DataGet(sr.body).type # "string"
    THEN [exc |-> "AttributeError", response |-> FALSE, summary |-> <<>>]
    ELSE [exc |-> "none", response |-> FALSE,
          summary |-> strip(DataGet(sr.body).val)]

\* lines 215 and 222: except RequestException, except Exception
PostClauses == <<"RequestException", "Exception">>

SummarizeHandler(api_base, text, sr, old_summary) ==
    IF api_base = <<>>
    THEN [summary |-> old_summary, net |-> <<>>,
          msgs |-> <<Msg("error", "api_base_missing")>>,
          written |-> <<>>, coded |-> NoBody, escaped |-> FALSE]
    ELSE IF IsBlank(text)
    THEN [summary |-> old_summary, net |-> <<>>,
          msgs |-> <<Msg("warning", "text_missing")>>,
          written |-> <<>>, coded |-> NoBody, escaped |-> FALSE]
    ELSE LET t == PostTry(sr)
             sending == <<Msg("info", "sending")>>
             clause == Catch(t.exc, PostClauses) IN
         IF t.exc = "none"
         THEN IF IsEmptySummary(t.summary)
              THEN [summary |-> old_summary, net |-> <<"POST">>,
                    msgs |-> sending \o <<Msg("error", "empty_summary")>>,
                    written |-> <<>>, coded |-> NoBody, escaped |-> FALSE]
              ELSE [summary |-> StoreSummary(old_summary, t.summary),
                    net |-> <<"POST">>,
                    msgs |-> sending \o <<Msg("subheader", "summary_header"),
                                          Msg("write", "summary")>>,
                    written |-> t.summary, coded |-> NoBody, escaped |-> FALSE]
         ELSE IF clause = 0
         THEN [summary |-> old_summary, net |-> <<"POST">>, msgs |-> sending,
               written |-> <<>>, coded |-> NoBody, escaped |-> TRUE]
         ELSE IF PostClauses[clause] = "RequestException"
         THEN [summary |-> old_summary, net |-> <<"POST">>,
               msgs |-> sending \o <<Msg("error", "request_error")>>
                        \o (IF t.response
                            THEN <<Msg("code", "response_body")>> ELSE <<>>),
               written |-> <<>>,
               coded |-> IF t.response THEN sr.body ELSE NoBody,
               escaped |-> FALSE]
         ELSE [summary |-> old_summary, net |-> <<"POST">>,
               msgs |-> sending \o <<Msg("error", "unexpected_error")>>,
               written |-> <<>>, coded |-> NoBody, escaped |-> FALSE]

----------------------------------------------------------------------------
(* ask_gemini_about_summary, lines 118-122 *)

FALLBACK_ANSWER == <<"F", "B">>

NoText_never(pr) == FALSE

\* line 119: not response or not getattr(response, "text", "")
NoText(pr) ==
    \/ pr.kind \in {"null", "noattr", "text_none"}
    \/ pr.kind = "text" /\ pr.text = <<>>

ask_gemini_about_summary(pr) ==
    IF pr.kind = "raise" THEN [exc |-> "APIError", answer |-> <<>>]
    ELSE IF pr.kind = "text_raises" THEN [exc |-> "ValueError", answer |-> <<>>]
    ELSE IF NoText(pr) THEN [exc |-> "none", answer |-> FALLBACK_ANSWER]
    ELSE IF pr.kind = "text" THEN [exc |-> "none", answer |-> strip(pr.text)]
    ELSE [exc |-> "AttributeError", answer |-> <<>>]

----------------------------------------------------------------------------
(* The question section, lines 229-263 *)

QAVisible_always(s) == TRUE

\* line 229: if st.session_state.summary
QAVisible(s) == s # <<>>

AskClauses == <<"Exception">>

AskHandler(key, question, pr, cur_summary) ==
    IF ~QAVisible(cur_summary)
    THEN [net |-> <<>>, msgs |-> <<>>, written |-> <<>>, escaped |-> FALSE]
    ELSE IF key = <<>>
    THEN [net |-> <<>>, msgs |-> <<Msg("error", "key_missing")>>,
          written |-> <<>>, escaped |-> FALSE]
    ELSE IF IsBlank(question)
    THEN [net |-> <<>>, msgs |-> <<Msg("warning", "question_missing")>>,
          written |-> <<>>, escaped |-> FALSE]
    ELSE LET r == ask_gemini_about_summary(pr) IN
         IF r.exc = "none"
         THEN [net |-> <<"GEMINI">>,
               msgs |-> <<Msg("subheader", "answer_header"),
                          Msg("write", "answer")>>,
               written |-> r.answer, escaped |-> FALSE]
         ELSE IF Catch(r.exc, AskClauses) = 1
         THEN [net |-> <<"GEMINI">>, msgs |-> <<Msg("error", "gemini_error")>>,
               written |-> <<>>, escaped |-> FALSE]
         ELSE [net |-> <<"GEMINI">>, msgs |-> <<>>, written |-> <<>>,
               escaped |-> TRUE]

----------------------------------------------------------------------------
(* Widget values *)

Urls == {<<>>, <<" ">>, <<"u">>}
ApiBases == {<<>>, <<"h">>}
TypedTexts == {<<>>, <<" ">>, <<"t">>}
Keys == {<<>>, <<"k">>}
Questions == {<<>>, <<" ">>, <<"q">>}

NoInput == [url |-> <<>>, api_base |-> <<>>, text |-> <<>>, key |-> <<>>,
            question |-> <<>>]

----------------------------------------------------------------------------
(* The session *)

\* lines 13-16
Init ==
    /\ summary = <<>>
    /\ input_text = <<>>
    /\ act = "idle"
    /\ inp = NoInput
    /\ fres = NoFetch
    /\ sres = NoPost
    /\ pres = NoProvider
    /\ net = <<>>
    /\ msgs = <<>>
    /\ written = <<>>
    /\ coded = NoBody
    /\ escaped = FALSE

\* a run with the fetch button clicked
Fetch ==
    /\ act = "idle"
    /\ \E url \in Urls, fr \in FetchResults \cup {NoFetch} :
           LET r == FetchHandler(url, fr, input_text) IN
           /\ (fr = NoFetch) = (r.net = <<>>)    \* a service answers iff called
           /\ act' = "fetch"
           /\ inp' = [NoInput EXCEPT !.url = url]
           /\ fres' = fr
           /\ input_text' = r.input_text
           /\ net' = r.net
           /\ msgs' = r.msgs
           /\ escaped' = r.escaped
           /\ written' = <<>>
           /\ coded' = NoBody
           /\ sres' = NoPost
           /\ pres' = NoProvider
           /\ UNCHANGED summary

\* a run with the summarize button clicked; the text area holds the stored
\* input text or what the user typed over it
Summarize ==
    /\ act = "idle"
    /\ \E api_base \in ApiBases, text \in TypedTexts \cup {input_text},
          sr \in PostResults \cup {NoPost} :
           LET r == SummarizeHandler(api_base, text, sr, summary) IN
           /\ (sr = NoPost) = (r.net = <<>>)
           /\ act' = "summarize"
           /\ inp' = [NoInput EXCEPT !.api_base = api_base, !.text = text]
           /\ sres' = sr
           /\ summary' = r.summary
           /\ net' = r.net
           /\ msgs' = r.msgs
           /\ written' = r.written
           /\ coded' = r.coded
           /\ escaped' = r.escaped
           /\ fres' = NoFetch
           /\ pres' = NoProvider
           /\ UNCHANGED input_text

\* a run in which the user goes for the ask button
Ask ==
    /\ act = "idle"
    /\ \E key \in Keys, question \in Questions,
          pr \in ProviderResults \cup {NoProvider} :
           LET r == AskHandler(key, question, pr, summary) IN
           /\ (pr = NoProvider) = (r.net = <<>>)
           /\ act' = "ask"
           /\ inp' = [NoInput EXCEPT !.key = key, !.question = question]
           /\ pres' = pr
           /\ net' = r.net
           /\ msgs' = r.msgs
           /\ written' = r.written
           /\ escaped' = r.escaped
           /\ coded' = NoBody
           /\ fres' = NoFetch
           /\ sres' = NoPost
           /\ UNCHANGED <<summary, input_text>>

\* the next interaction begins: the page of the last run is cleared, the
\* session state stays
Idle ==
    /\ act # "idle"
    /\ act' = "idle"
    /\ inp' = NoInput
    /\ fres' = NoFetch
    /\ sres' = NoPost
    /\ pres' = NoProvider
    /\ net' = <<>>
    /\ msgs' = <<>>
    /\ written' = <<>>
    /\ coded' = NoBody
    /\ escaped' = FALSE
    /\ UNCHANGED <<summary, input_text>>

Next == Fetch \/ Summarize \/ Ask \/ Idle

Spec == Init /\ [][Next]_vars

----------------------------------------------------------------------------
(* Vocabulary of the properties, stated without the operators of the model *)

AllBlank(s) == \A i \in 1..Len(s) : s[i] \in WS

\* t is s without the whitespace at its two ends
IsTrimOf(t, s) ==
    \E i \in 0..Len(s), j \in 0..Len(s) :
        /\ i + j <= Len(s)
        /\ t = SubSeq(s, i + 1, Len(s) - j)
        /\ \A k \in 1..i : s[k] \in WS
        /\ \A k \in (Len(s) - j + 1)..Len(s) : s[k] \in WS
        /\ t # <<>> => (t[1] \notin WS /\ t[Len(t)] \notin WS)

Is2xx(st) == st >= 200 /\ st < 300
Is4xx5xx(st) == st >= 400 /\ st < 600

Called(api, calls) == \E i \in 1..Len(calls) : calls[i] = api

HasMsg(ms, i) == \E n \in 1..Len(ms) : ms[n].id = i

HasKind(ms, k) == \E n \in 1..Len(ms) : ms[n].kind = k

----------------------------------------------------------------------------
\* C1: while no summary has been stored (the stored summary is still the
\* empty string), an ask cannot reach the question-answering provider: the
\* run issues no network call, emits no answer, and the provider is never
\* called.
C1_NoAskWithoutSummary ==
    summary = <<>> =>
        /\ ~Called("GEMINI", net)
        /\ act = "ask" =>
              /\ net = <<>>
              /\ pres = NoProvider
              /\ ~HasMsg(msgs, "answer")

C1_Witness ==
    /\ act = "ask"
    /\ summary = <<>>
    /\ inp.key # <<>>
    /\ ~AllBlank(inp.question)

----------------------------------------------------------------------------
C2_Case(sr) ==
    /\ sr.kind = "http"
    /\ Is2xx(sr.status)
    /\ sr.body.json = "object"
    /\ \/ sr.body.field.type = "missing"
       \/ sr.body.field.type = "string" /\ sr.body.field.val = <<>>

\* C2: a summarize run that gets a 2xx JSON object whose summary field is
\* the empty string or is missing ends in the empty-summary error, not in
\* the request error or the unexpected error, and the stored summary is
\* what it was before the run.
C2_EmptySummaryIsReported ==
    [][ (act' = "summarize" /\ C2_Case(sres')) =>
            /\ HasMsg(msgs', "empty_summary")
            /\ ~HasMsg(msgs', "request_error")
            /\ ~HasMsg(msgs', "unexpected_error")
            /\ ~HasMsg(msgs', "summary")
            /\ summary' = summary
            /\ ~escaped' ]_vars

C2_Witness ==
    /\ act = "summarize"
    /\ C2_Case(sres)
    /\ sres.body.field.type = "missing"
    /\ summary # <<>>
    /\ HasMsg(msgs, "empty_summary")

----------------------------------------------------------------------------
C3_Outcome(ms, cd, sr, esc, new_summary, old_summary) ==
    /\ HasMsg(ms, "request_error")
    /\ HasMsg(ms, "response_body")
    /\ cd = sr.body
    /\ new_summary = old_summary
    /\ ~esc

----------------------------------------------------------------------------
C4_Success(sr) ==
    /\ sr.kind = "http"
    /\ Is2xx(sr.status)
    /\ sr.body.json = "object"
    /\ sr.body.field.type = "string"
    /\ ~AllBlank(sr.body.field.val)

\* C4: after a successful summarize run (a 2xx answer whose summary field
\* is not blank) the stored summary is exactly that field without the
\* whitespace at its ends, whatever was stored before, and it is the text
\* shown.
C4_StoredIsTrimmedField ==
    (act = "summarize" /\ C4_Success(sres)) =>
        /\ IsTrimOf(summary, sres.body.field.val)
        /\ written = summary

C4_Witness ==
    /\ act = "summarize"
    /\ C4_Success(sres)
    /\ Len(sres.body.field.val) = 3
    /\ sres.body.field.val[1] \in WS
    /\ sres.body.field.val[3] \in WS
    /\ summary = <<"x">>

----------------------------------------------------------------------------
\* the run failed validation: fetch without a URL; summarize without a
\* backend URL or without article text; ask (with the question section on
\* the page) without an API key or without a question
C5_ValidationFailure ==
    \/ act = "fetch" /\ AllBlank(inp.url)
    \/ act = "summarize" /\ (inp.api_base = <<>> \/ AllBlank(inp.text))
    \/ act = "ask" /\ summary # <<>>
          /\ (inp.key = <<>> \/ AllBlank(inp.question))

\* the validation failure that the handler meets first is a missing
\* backend URL or a missing API key
C5_ConfigMissing ==
    \/ act = "summarize" /\ inp.api_base = <<>>
    \/ act = "ask" /\ inp.key = <<>>

\* C5 as stated: a run that fails validation issues no network call and
\* reports the failure as a warning.
C5_Original ==
    C5_ValidationFailure =>
        /\ net = <<>>
        /\ Len(msgs) = 1
        /\ msgs[1].kind = "warning"
        /\ ~escaped

\* C5, amended: a run that fails validation issues no network call and
\* reports the failure as one validation notice, never as an error of the
\* network layer: an error notice when the backend URL or the API key is
\* missing, a warning when the URL, the article text or the question is.
C5_ValidationBeforeNetwork ==
    C5_ValidationFailure =>
        /\ net = <<>>
        /\ fres = NoFetch /\ sres = NoPost /\ pres = NoProvider
        /\ Len(msgs) = 1
        /\ msgs[1].kind = (IF C5_ConfigMissing THEN "error" ELSE "warning")
        /\ msgs[1].id \in {"url_missing", "api_base_missing", "text_missing",
                           "key_missing", "question_missing"}
        /\ ~escaped

C5_Witness ==
    /\ act = "ask"
    /\ summary # <<>>
    /\ inp.key = <<>>
    /\ ~AllBlank(inp.question)
    /\ msgs = <<Msg("error", "key_missing")>>
    /\ net = <<>>

----------------------------------------------------------------------------
\* the text of a paragraph element: its text nodes one after the other
TextContent(p) == Concat(p)

C6_Qualifies(t) == Len(t) > 40

\* the trimmed texts of the paragraphs of trimmed length over 40, in
\* document order, joined by single newlines
C6_Expected(pg) ==
    JoinNL(SelectSeq([i \in 1..Len(pg) |-> strip(TextContent(pg[i]))],
                     C6_Qualifies))

\* C6: for every successfully fetched page the extraction is exactly the
\* trimmed texts of the paragraph elements of trimmed length over 40, in
\* document order, joined by single newlines, and the empty string when no
\* paragraph qualifies.
C6_Original ==
    (act = "fetch" /\ fres.kind = "http" /\ Is2xx(fres.status)) =>
        IF C6_Expected(fres.page) = <<>>
        THEN HasMsg(msgs, "extract_failed")
        ELSE HasMsg(msgs, "extracted") /\ input_text = C6_Expected(fres.page)

----------------------------------------------------------------------------
C7_Failed(ms, esc, new_input, old_input) ==
    /\ ~esc
    /\ HasMsg(ms, "extract_failed")
    /\ ~HasMsg(ms, "extracted")
    /\ new_input = old_input

\* C7 as stated: on a transport failure or any status outside 2xx the
\* extraction does not raise, reports the cause and yields no text; and an
\* empty extraction from a fetched page ends the fetch run as a failure
\* does: the stored input text stays.
C7_Original ==
    [][ (act' = "fetch" /\ fres' # NoFetch) =>
          /\ (fres'.kind = "exc" \/ ~Is2xx(fres'.status)) =>
                /\ HasMsg(msgs', "fetch_error")
                /\ C7_Failed(msgs', escaped', input_text', input_text)
          /\ (fres'.kind = "http" /\ Is2xx(fres'.status)
                 /\ PageText(fres'.page) = <<>>) =>
                /\ ~HasMsg(msgs', "fetch_error")
                /\ C7_Failed(msgs', escaped', input_text', input_text) ]_vars

\* C7, amended: on a transport failure or a 4xx or 5xx status the
\* extraction does not raise, reports the cause and yields no text; and an
\* empty extraction from a fetched page ends the fetch run as a failure
\* does: the stored input text stays.
C7_FetchFailureIsContained ==
    [][ (act' = "fetch" /\ fres' # NoFetch) =>
          /\ (fres'.kind = "exc" \/ Is4xx5xx(fres'.status)) =>
                /\ HasMsg(msgs', "fetch_error")
                /\ C7_Failed(msgs', escaped', input_text', input_text)
          /\ (fres'.kind = "http" /\ ~Is4xx5xx(fres'.status)
                 /\ PageText(fres'.page) = <<>>) =>
                /\ ~HasMsg(msgs', "fetch_error")
                /\ C7_Failed(msgs', escaped', input_text', input_text) ]_vars

C7_Witness ==
    /\ act = "fetch"
    /\ fres.kind = "http"
    /\ fres.status = 404
    /\ PageText(fres.page) # <<>>
    /\ HasMsg(msgs, "fetch_error")
    /\ input_text # <<>>
    /\ input_text # PageText(fres.page)

----------------------------------------------------------------------------
C8_WithoutText(pr) ==
    \/ pr.kind \in {"null", "text_none"}
    \/ pr.kind = "text" /\ pr.text = <<>>

\* C8: when the provider call returns without text (no response, a text
\* that is null or empty) the answer shown is the fixed fallback string and
\* no error is reported; when the provider call fails in transport the run
\* reports an error and shows no answer, the fallback string included.
C8_FallbackIsNotAnError ==
    (act = "ask" /\ pres # NoProvider) =>
        /\ C8_WithoutText(pres) =>
              /\ written = FALLBACK_ANSWER
              /\ HasMsg(msgs, "answer")
              /\ ~HasKind(msgs, "error")
              /\ ~escaped
        /\ pres.kind = "raise" =>
              /\ HasMsg(msgs, "gemini_error")
              /\ ~HasMsg(msgs, "answer")
              /\ written # FALLBACK_ANSWER
              /\ ~escaped

C8_Witness ==
    /\ act = "ask"
    /\ pres.kind = "text_none"
    /\ written = FALLBACK_ANSWER
    /\ msgs = <<Msg("subheader", "answer_header"), Msg("write", "answer")>>

----------------------------------------------------------------------------
\* the run was a successful summarization: the backend was called, its
\* answer carried a summary that is not blank, and the summary was shown
\* with no error or warning
C9_Succeeded(a, calls, ms, sr) ==
    /\ a = "summarize"
    /\ calls = <<"POST">>
    /\ HasMsg(ms, "summary")
    /\ ~HasKind(ms, "error")
    /\ ~HasKind(ms, "warning")
    /\ sr.kind = "http"
    /\ sr.body.json = "object"
    /\ sr.body.field.type = "string"
    /\ ~AllBlank(sr.body.field.val)

\* C9: the stored summary changes only in a step that is a successful
\* summarization; every fetch run, every ask run and every summarize run
\* that is rejected or fails leaves it as it was.
C9_SummaryFrame ==
    [][ /\ summary' # summary => C9_Succeeded(act', net', msgs', sres')
        /\ act' \in {"fetch", "ask", "idle"} => summary' = summary
        /\ (act' = "summarize" /\ (HasKind(msgs', "error")
                                     \/ HasKind(msgs', "warning")))
              => summary' = summary ]_vars

C9_Witness ==
    /\ act = "ask"
    /\ summary # <<>>
    /\ HasMsg(msgs, "answer")
    /\ written # FALLBACK_ANSWER

----------------------------------------------------------------------------
\* C10: whenever the provider call does not raise, the answer is a string
\* that is not empty: the fixed fallback string, or the provider's text
\* without the whitespace at its ends.
C10_Original ==
    (act = "ask" /\ pres # NoProvider
        /\ pres.kind \notin {"raise", "text_raises"}) =>
        /\ ~escaped
        /\ HasMsg(msgs, "answer")
        /\ written # <<>>
        /\ \/ written = FALLBACK_ANSWER
           \/ pres.kind = "text" /\ IsTrimOf(written, pres.text)

====
